---- MODULE Spec2Model ----
(***************************************************************************)
(* Weekly word-list allocation of the Core Knowledge generator             *)
(* (daily_review_words.py): create_weeks_combined (auto mode) and          *)
(* build_weeks_config_from_assignments (explicit mode).                    *)
(*                                                                         *)
(* A Python str is modelled as a sequence of one-character strings, so     *)
(* that normalize_kw, str.split, int() and the substring test are computed *)
(* character by character.                                                 *)
(***************************************************************************)
EXTENDS Integers, Sequences, FiniteSets, TLC

(* ------------------------------------------------------------------ *)
(* Bounds of the model                                                *)
(* ------------------------------------------------------------------ *)
MaxLessons == 2
MaxWeeksArg == 2
MaxInputWeeks == 2
MaxCodes == 3
MaxKeywords == 3
MaxChars == 4
MaxPinLen == 2

(* ------------------------------------------------------------------ *)
(* Program constants                                                  *)
(* ------------------------------------------------------------------ *)
ExtensionCount == 5
FoundationMin == 10
FoundationCap == 15
CombineBelow == 12
CombineLimit == 18

(* ------------------------------------------------------------------ *)
(* Characters                                                         *)
(* ------------------------------------------------------------------ *)
UpperCase == <<"A","B","C","D","E","F","G","H","I","J","K","L","M",
               "N","O","P","Q","R","S","T","U","V","W","X","Y","Z">>
LowerCase == <<"a","b","c","d","e","f","g","h","i","j","k","l","m",
               "n","o","p","q","r","s","t","u","v","w","x","y","z">>
Digits == <<"0","1","2","3","4","5","6","7","8","9">>
\* the characters of the model in increasing code point order
CodePoints == <<"\t", "\n", " ", "&", ".", "/">> \o Digits \o UpperCase \o LowerCase
                  \o <<"ϒ">>
\* upper-case letters (category Lu) that have no lower-case form: str.lower
\* returns them unchanged; U+03D2 GREEK UPSILON WITH HOOK SYMBOL stands for them
UpperOnly == {"ϒ"}

IndexOf(seq, c) == CHOOSE k \in 1..Len(seq) : seq[k] = c
InSeq(seq, c) == \E k \in 1..Len(seq) : seq[k] = c
\* order of a character among the code points (order-preserving stand-in for ord)
Ord(c) == IndexOf(CodePoints, c)
IsSpace(c) == c \in {" ", "\t", "\n"}
IsDigit(c) == InSeq(Digits, c)
\* str.lower on one character, tabulated over the characters of the model
LowerTable ==
    [c \in {CodePoints[k] : k \in 1..Len(CodePoints)} |->
        IF InSeq(UpperCase, c) THEN LowerCase[IndexOf(UpperCase, c)] ELSE c]
LowerChar(c) == LowerTable[c]

(* ------------------------------------------------------------------ *)
(* str operations                                                     *)
(* ------------------------------------------------------------------ *)
RECURSIVE LStrip(_)
LStrip(s) == IF s # <<>> /\ IsSpace(Head(s)) THEN LStrip(Tail(s)) ELSE s

RECURSIVE RStrip(_)
RStrip(s) == IF s # <<>> /\ IsSpace(s[Len(s)]) THEN RStrip(SubSeq(s, 1, Len(s) - 1)) ELSE s

\* str.strip()
Strip(s) == RStrip(LStrip(s))

\* str.lower()
Lower(s) == [k \in 1..Len(s) |-> LowerChar(s[k])]

\* re.sub(r"\s+", " ", s): every maximal run of whitespace becomes one space
RECURSIVE CollapseSpaces(_)
CollapseSpaces(s) ==
    IF s = <<>> THEN <<>>
    ELSE IF IsSpace(Head(s))
         THEN <<" ">> \o CollapseSpaces(LStrip(s))
         ELSE <<Head(s)>> \o CollapseSpaces(Tail(s))

\* mutant: the string is not stripped
NormalizeNoStrip(s) == CollapseSpaces(Lower(s))

\* re.sub(r"\s+", " ", s.strip().lower())
NormalizeChars(s) == CollapseSpaces(Lower(Strip(s)))

\* str.split(sep) for a one-character separator
RECURSIVE SplitFrom(_, _, _)
SplitFrom(s, sep, cur) ==
    IF s = <<>> THEN <<cur>>
    ELSE IF Head(s) = sep
         THEN <<cur>> \o SplitFrom(Tail(s), sep, <<>>)
         ELSE SplitFrom(Tail(s), sep, Append(cur, Head(s)))
Split(s, sep) == SplitFrom(s, sep, <<>>)

\* int(s) succeeds: optional surrounding whitespace around a non-empty digit run
IsInt(s) == LET t == Strip(s) IN t # <<>> /\ \A k \in 1..Len(t) : IsDigit(t[k])
RECURSIVE DigitsValue(_)
DigitsValue(t) ==
    IF t = <<>> THEN 0
    ELSE 10 * DigitsValue(SubSeq(t, 1, Len(t) - 1)) + (IndexOf(Digits, t[Len(t)]) - 1)
ParseInt(s) == DigitsValue(Strip(s))

\* a < b for str (lexicographic by code point)
RECURSIVE StrLess(_, _)
StrLess(a, b) ==
    IF b = <<>> THEN FALSE
    ELSE IF a = <<>> THEN TRUE
    ELSE IF Head(a) = Head(b) THEN StrLess(Tail(a), Tail(b))
    ELSE Ord(Head(a)) < Ord(Head(b))

\* sub in s
Contains(s, sub) ==
    \E k \in 0..(Len(s) - Len(sub)) : SubSeq(s, k + 1, k + Len(sub)) = sub

\* sep.join(parts)
RECURSIVE Join(_, _)
Join(parts, sep) ==
    IF parts = <<>> THEN <<>>
    ELSE IF Len(parts) = 1 THEN parts[1]
    ELSE parts[1] \o sep \o Join(Tail(parts), sep)

(* ------------------------------------------------------------------ *)
(* list operations                                                    *)
(* ------------------------------------------------------------------ *)
\* xs[:n] for n >= 0
Take(xs, n) == SubSeq(xs, 1, IF n < Len(xs) THEN n ELSE Len(xs))
\* xs[n:] for n >= 0
Drop(xs, n) == SubSeq(xs, n + 1, Len(xs))
\* xs[-n:] for n >= 1
LastN(xs, n) == IF n >= Len(xs) THEN xs ELSE SubSeq(xs, Len(xs) - n + 1, Len(xs))
\* xs[:-n] for n >= 1
DropLastN(xs, n) == IF n >= Len(xs) THEN <<>> ELSE SubSeq(xs, 1, Len(xs) - n)

(* ------------------------------------------------------------------ *)
(* Inputs                                                             *)
(* ------------------------------------------------------------------ *)
alpha == <<"a","l","p","h","a">>
beta == <<"b","e","t","a">>
BetaCap == <<"B","e","t","a">>
gamma == <<"g","a","m","m","a">>
delta == <<"d","e","l","t","a">>
epsilon == <<"e","p","s","i","l","o","n">>
zeta == <<"z","e","t","a">>
eta == <<"e","t","a">>
secret == <<"s","e","c","r","e","t">>
Letter(k) == <<LowerCase[k]>>

FeedbackMarker == <<"F","e","e","d","b","a","c","k">>

\* lesson data the lessons map is drawn from
LessonIntro == [title |-> <<"I","n","t","r","o">>, is_ht_only |-> FALSE,
                keywords |-> <<alpha, beta>>]
LessonDetail == [title |-> <<"D","e","t","a","i","l">>, is_ht_only |-> TRUE,
                 keywords |-> <<gamma, delta, epsilon, zeta, eta>>]
LessonFeedback == [title |-> <<"U","n","i","t"," ","3"," ","F","e","e","d","b","a","c","k">>,
                   is_ht_only |-> FALSE, keywords |-> <<secret>>]
\* 21 distinct foundation words, one of them listed twice with other casing and spacing
LessonBig == [title |-> <<"B","i","g">>, is_ht_only |-> FALSE,
              keywords |-> [k \in 1..21 |-> Letter(k)] \o <<<<" ","A"," ">>>>]
\* 6 extension words, five of them words of LessonBig; the sixth is a foundation
\* word of LessonIntro in other casing
LessonHigher == [title |-> <<"H","i","g","h","e","r">>, is_ht_only |-> TRUE,
                 keywords |-> <<Letter(17), Letter(18), Letter(19), Letter(20), Letter(21), BetaCap>>]
\* 3 extension words; the title has the marker in lower case only
LessonLoops == [title |-> <<"f","e","e","d","b","a","c","k"," ","l","o","o","p","s">>, is_ht_only |-> TRUE,
                keywords |-> <<gamma, delta, epsilon>>]
LessonData == {LessonIntro, LessonDetail, LessonFeedback, LessonBig, LessonHigher, LessonLoops}

\* lesson codes in the order the lessons map lists them (not the sort order)
CodeX12 == <<"X",".","1",".","2">>
CodeX11 == <<"X",".","1",".","1">>
CodeX110 == <<"X",".","1",".","1","0">>
CodeX1 == <<"X",".","1">>
CodeUnknown == <<"Z",".","9",".","9">>
CodeOrder == <<CodeX12, CodeX11, CodeX110, CodeX1>>

\* the lessons maps: the first n codes, each with any of the lesson data
LessonMaps ==
    UNION {{[k \in 1..n |-> [code |-> CodeOrder[k], title |-> d[k].title,
                             keywords |-> d[k].keywords, is_ht_only |-> d[k].is_ht_only]]
            : d \in [1..n -> LessonData]} : n \in 0..MaxLessons}

\* supplemental pools: none, or one long enough to top up two weeks; it has a
\* blank entry, entries that differ in casing or spacing only, and a foundation
\* word of LessonIntro (Alpha) and one of LessonIntro and LessonHigher (BETA);
\* its last entry is an extension word of LessonDetail and LessonLoops (Gamma)
PoolLong == <<<<" ">>,
              <<"A","l","p","h","a">>,
              <<"m","o","l","e">>,
              <<"M","o","l","e">>,
              <<"a","t","o","m">>,
              <<"i","o","n">>,
              <<"B","E","T","A">>,
              <<"a","c","i","d">>,
              <<"b","a","s","e">>,
              <<"s","a","l","t">>,
              <<"m"," "," ","o","l","e">>,
              <<"m"," ","o","l","e">>,
              <<"g","a","s">>,
              <<"o","r","e">>,
              <<"p","h">>,
              <<"I","O","N">>,
              <<"z","i","n","c">>,
              <<"G","a","m","m","a">>>>
Pools == {<<>>, PoolLong}

\* the week lists of explicit mode
WeekOptions == {<<>>, <<CodeX11>>, <<CodeX12, CodeUnknown, CodeX11>>}
WeekLists == UNION {[1..n -> WeekOptions] : n \in 0..MaxInputWeeks}


(* ------------------------------------------------------------------ *)
(* normalize_kw                                                       *)
(* ------------------------------------------------------------------ *)
\* the words of the inputs
AllWords == UNION {{d.keywords[k] : k \in 1..Len(d.keywords)} : d \in LessonData}
            \cup UNION {{p[k] : k \in 1..Len(p)} : p \in Pools}
\* NormalizeChars tabulated once over the words of the inputs
NormTable == [w \in AllWords |-> NormalizeChars(w)]
normalize_kw(s) == IF s \in AllWords THEN NormTable[s] ELSE NormalizeChars(s)

NormSet(xs) == {normalize_kw(xs[k]) : k \in 1..Len(xs)}

(* ------------------------------------------------------------------ *)
(* dedupe: first occurrence of every normalized form, original text   *)
(* ------------------------------------------------------------------ *)
\* mutant: the normalized form is stored instead of the keyword
RECURSIVE dedupeFromNormalized(_, _, _)
dedupeFromNormalized(keywords, seen, result_) ==
    IF keywords = <<>> THEN result_
    ELSE LET kw == Head(keywords)
             kw_norm == normalize_kw(kw)
         IN IF kw_norm \notin seen
            THEN dedupeFromNormalized(Tail(keywords), seen \cup {kw_norm},
                                      Append(result_, kw_norm))
            ELSE dedupeFromNormalized(Tail(keywords), seen, result_)

RECURSIVE dedupeFrom(_, _, _)
dedupeFrom(keywords, seen, result_) ==
    IF keywords = <<>> THEN result_
    ELSE LET kw == Head(keywords)
             kw_norm == normalize_kw(kw)
         IN IF kw_norm \notin seen
            THEN dedupeFrom(Tail(keywords), seen \cup {kw_norm}, Append(result_, kw))
            ELSE dedupeFrom(Tail(keywords), seen, result_)
dedupe(keywords) == dedupeFrom(keywords, {}, <<>>)

(* ------------------------------------------------------------------ *)
(* lesson order                                                       *)
(* ------------------------------------------------------------------ *)
\* mutant: the key is the code itself
lesson_sort_key_text(lc) == <<lc, 0, 0>>

\* mutant: a malformed code is keyed behind the numbered ones
lesson_sort_key_high(lc) ==
    LET parts == Split(lc, ".")
    IN IF Len(parts) >= 3 /\ IsInt(parts[2]) /\ IsInt(parts[3])
       THEN <<parts[1], ParseInt(parts[2]), ParseInt(parts[3])>>
       ELSE <<lc, 100, 100>>

lesson_sort_key(lc) ==
    LET parts == Split(lc, ".")
    IN IF Len(parts) >= 3 /\ IsInt(parts[2]) /\ IsInt(parts[3])
       THEN <<parts[1], ParseInt(parts[2]), ParseInt(parts[3])>>
       ELSE <<lc, 0, 0>>

\* tuple comparison a < b of two sort keys (str, int, int)
KeyLess(a, b) ==
    \/ StrLess(a[1], b[1])
    \/ a[1] = b[1] /\ a[2] < b[2]
    \/ a[1] = b[1] /\ a[2] = b[2] /\ a[3] < b[3]

\* sorted(codes, key=lesson_sort_key): stable, so equal keys keep their order
RECURSIVE InsertByKey(_, _)
InsertByKey(sortedCodes, lc) ==
    IF sortedCodes = <<>> THEN <<lc>>
    ELSE IF KeyLess(lesson_sort_key(lc), lesson_sort_key(Head(sortedCodes)))
         THEN <<lc>> \o sortedCodes
         ELSE <<Head(sortedCodes)>> \o InsertByKey(Tail(sortedCodes), lc)
RECURSIVE SortCodes(_)
SortCodes(codes) ==
    IF codes = <<>> THEN <<>>
    ELSE InsertByKey(SortCodes(SubSeq(codes, 1, Len(codes) - 1)), codes[Len(codes)])

(* ------------------------------------------------------------------ *)
(* tier split: the 5 extension words and what is left as foundation   *)
(* ------------------------------------------------------------------ *)
\* mutant: the borrowed words are the first of the foundation list
SplitTierFromFront(foundation, ht) ==
    IF Len(ht) >= ExtensionCount
    THEN [extension |-> Take(ht, ExtensionCount),
          foundation |-> foundation \o Drop(ht, ExtensionCount)]
    ELSE LET needed == ExtensionCount - Len(ht)
         IN IF Len(foundation) > needed
            THEN [extension |-> ht \o Take(foundation, needed),
                  foundation |-> Drop(foundation, needed)]
            ELSE [extension |-> ht, foundation |-> foundation]

\* mutant: the extension words from the 6th on are dropped
SplitTierDropOverflow(foundation, ht) ==
    IF Len(ht) >= ExtensionCount
    THEN [extension |-> Take(ht, ExtensionCount), foundation |-> foundation]
    ELSE LET needed == ExtensionCount - Len(ht)
         IN IF Len(foundation) > needed
            THEN [extension |-> ht \o LastN(foundation, needed),
                  foundation |-> DropLastN(foundation, needed)]
            ELSE [extension |-> ht, foundation |-> foundation]

SplitTier(foundation, ht) ==
    IF Len(ht) >= ExtensionCount
    THEN [extension |-> Take(ht, ExtensionCount),
          foundation |-> foundation \o Drop(ht, ExtensionCount)]
    ELSE LET needed == ExtensionCount - Len(ht)
         IN IF Len(foundation) > needed
            THEN [extension |-> ht \o LastN(foundation, needed),
                  foundation |-> DropLastN(foundation, needed)]
            ELSE [extension |-> ht, foundation |-> foundation]

(* ------------------------------------------------------------------ *)
(* pool scan of one padding step: index of the first pool entry that  *)
(* is not blank, not in this week's foundation and not used before;   *)
(* 0 when there is none                                               *)
(* ------------------------------------------------------------------ *)
\* mutant: the scan forgets the words used in earlier weeks
EligibleIgnoringUsed(w, foundation_norm, used_norm) ==
    LET n == normalize_kw(w)
    IN n # <<>> /\ n \notin foundation_norm

Eligible(w, foundation_norm, used_norm) ==
    LET n == normalize_kw(w)
    IN n # <<>> /\ n \notin foundation_norm /\ n \notin used_norm

\* mutant: the scan takes the last eligible entry
PoolPickLast(pool_, foundation_norm, used_norm) ==
    LET ok == {k \in 1..Len(pool_) : Eligible(pool_[k], foundation_norm, used_norm)}
    IN IF ok = {} THEN 0 ELSE CHOOSE k \in ok : \A m \in ok : k >= m

\* the first pool entry the scan accepts (lines 776-783), 0 when there is none
PoolPick(pool_, foundation_norm, used_norm) ==
    LET ok == {k \in 1..Len(pool_) : Eligible(pool_[k], foundation_norm, used_norm)}
    IN IF ok = {} THEN 0 ELSE CHOOSE k \in ok : \A m \in ok : k <= m

\* mutant: the fallback repeats the last word of the list
RepeatWordLast(foundation) == foundation[Len(foundation)]

\* the word the fallback repeats: index len % len of the list
RepeatWord(foundation) == foundation[(Len(foundation) % Len(foundation)) + 1]

\* mutant: no cap
CapFoundationNone(foundation) == foundation

\* the cap of the foundation list
CapFoundation(foundation) == Take(foundation, FoundationCap)
\* the cap of the extension list
CapExtension(extension) == Take(extension, ExtensionCount)

(* ------------------------------------------------------------------ *)
(* State                                                              *)
(* ------------------------------------------------------------------ *)
VARIABLES
    mode,                      \* "auto": create_weeks_combined; "explicit": build_weeks_config_from_assignments
    lessons,                   \* the lessons map, as the sequence of its entries in insertion order
    pool,                      \* list(extra_words_pool), or [] when there is none
    max_weeks,                 \* auto mode; 0 stands for None (both are falsy)
    week_lesson_codes,         \* explicit mode: the caller's weeks
    lesson_codes,              \* auto mode: sorted codes of the lessons that are no Feedback lessons
    i,                         \* auto mode: 0-based index of the next lesson
    week_num,
    week_lessons,
    week_keywords_foundation,
    week_keywords_ht,
    total_words,
    extension_words,
    week_foundation_norm,
    pool_used_norm,
    weeks_config,              \* week number -> the week's record
    topups,                    \* history: the pool entries appended as top-ups, in order
    pc,
    call,                      \* the helper function applied on its own, "none" in a builder run
    argument,                  \* its argument
    result,                    \* its return value
    invocation,                \* history: 1 in the first builder invocation, 2 in the second
    first_result,              \* history: the map the first invocation returned
    DAILY_REVIEW_PIN,          \* daily_review_app.py: the environment variable, "" when unset
    pin_ok,                    \* st.session_state.get("pin_ok")
    pin_input,                 \* the text of the PIN box
    screen                     \* where the last script run of the session ended

vars == <<mode, lessons, pool, max_weeks, week_lesson_codes, lesson_codes, i, week_num,
          week_lessons, week_keywords_foundation, week_keywords_ht, total_words,
          extension_words, week_foundation_norm, pool_used_norm, weeks_config, topups, pc,
          call, argument, result, invocation, first_result,
          DAILY_REVIEW_PIN, pin_ok, pin_input, screen>>

\* the session of the Streamlit app
session == <<DAILY_REVIEW_PIN, pin_ok, pin_input, screen>>
\* no session of the app is under way
NoSession ==
    /\ DAILY_REVIEW_PIN = <<>>
    /\ pin_ok = FALSE
    /\ pin_input = <<>>
    /\ screen = "none"
\* what a step of a builder invocation leaves alone besides its arguments
aside == <<call, argument, result, invocation, first_result, session>>
inputs == <<mode, lessons, pool, max_weeks, week_lesson_codes, lesson_codes>>

(* ------------------------------------------------------------------ *)
(* The lessons map                                                    *)
(* ------------------------------------------------------------------ *)
LessonKeys(ls) == [k \in 1..Len(ls) |-> ls[k].code]
LessonOf(ls, lc) == ls[CHOOSE k \in 1..Len(ls) : ls[k].code = lc]

\* [x for x in xs if x in keep]
RECURSIVE FilterSeq(_, _)
FilterSeq(xs, keep) ==
    IF xs = <<>> THEN <<>>
    ELSE (IF Head(xs) \in keep THEN <<Head(xs)>> ELSE <<>>) \o FilterSeq(Tail(xs), keep)

\* mutant: Feedback lessons are kept
NotFeedbackNone(ls) == {ls[k].code : k \in 1..Len(ls)}

\* the codes of the lessons whose title has no 'Feedback'
NotFeedback(ls) == {ls[k].code : k \in {m \in 1..Len(ls) : ~Contains(ls[m].title, FeedbackMarker)}}

\* auto mode: the sorted codes of the lessons whose title has no 'Feedback'
AutoLessonCodes(ls) == FilterSeq(SortCodes(LessonKeys(ls)), NotFeedback(ls))

\* mutant: the week filter drops unknown codes only
FilterWeekKeepingFeedback(ls, codes) == FilterSeq(codes, {ls[k].code : k \in 1..Len(ls)})

\* mutant: the kept codes are put in lesson order
FilterWeekSorted(ls, codes) == SortCodes(FilterSeq(codes, NotFeedback(ls)))

\* explicit mode: the codes of one input week that are lessons and no Feedback lessons
FilterWeek(ls, codes) == FilterSeq(codes, NotFeedback(ls))

\* the keywords of the lessons of one tier among codes, concatenated in order
RECURSIVE TierKeywords(_, _, _)
TierKeywords(ls, codes, ht) ==
    IF codes = <<>> THEN <<>>
    ELSE (IF LessonOf(ls, Head(codes)).is_ht_only = ht
          THEN LessonOf(ls, Head(codes)).keywords ELSE <<>>)
         \o TierKeywords(ls, Tail(codes), ht)

\* the record stored for a week; member_lessons is the list week_lessons that
\* the field lessons joins with ' & '
WeekRecord(ls, members, foundation, extension) ==
    [lessons |-> Join(members, <<" ", "&", " ">>),
     titles |-> Join([k \in 1..Len(members) |-> LessonOf(ls, members[k]).title], <<" ", "/", " ">>),
     member_lessons |-> members,
     foundation |-> foundation,
     extension |-> extension]

Store(config, num, rec) ==
    [w \in DOMAIN config \cup {num} |-> IF w = num THEN rec ELSE config[w]]

(* ------------------------------------------------------------------ *)
(* Init: the state on entry to the main loop of either builder        *)
(* ------------------------------------------------------------------ *)
Init ==
    /\ lessons \in LessonMaps
    /\ pool \in Pools
    /\ \/ /\ mode = "auto"
          /\ max_weeks \in 0..MaxWeeksArg
          /\ week_lesson_codes = <<>>
          /\ lesson_codes = AutoLessonCodes(lessons)
          /\ pc = "auto_week"
       \/ /\ mode = "explicit"
          /\ max_weeks = 0
          /\ week_lesson_codes \in WeekLists
          /\ lesson_codes = <<>>
          /\ pc = "exp_week"
    /\ i = 0
    /\ week_num = 1
    /\ week_lessons = <<>>
    /\ week_keywords_foundation = <<>>
    /\ week_keywords_ht = <<>>
    /\ total_words = 0
    /\ extension_words = <<>>
    /\ week_foundation_norm = {}
    /\ pool_used_norm = {}
    /\ weeks_config = <<>>
    /\ topups = <<>>
    /\ call = "none"
    /\ argument = <<>>
    /\ result = <<>>
    /\ invocation = 1
    /\ first_result = <<>>
    /\ NoSession

(* ------------------------------------------------------------------ *)
(* create_weeks_combined                                              *)
(* ------------------------------------------------------------------ *)
\* a week opens with the next lesson, whatever its size
AutoStartWeek ==
    /\ pc = "auto_week"
    /\ i < Len(lesson_codes)
    /\ LET current_lesson == lesson_codes[i + 1]
           current_kw == LessonOf(lessons, current_lesson).keywords
           ht == LessonOf(lessons, current_lesson).is_ht_only
       IN /\ week_lessons' = <<current_lesson>>
          /\ week_keywords_ht' = IF ht THEN current_kw ELSE <<>>
          /\ week_keywords_foundation' = IF ht THEN <<>> ELSE current_kw
          /\ total_words' = Len(current_kw)
    /\ i' = i + 1
    /\ pc' = "auto_group"
    /\ UNCHANGED <<aside, inputs, week_num, extension_words, week_foundation_norm,
                   pool_used_norm, weeks_config, topups>>

\* mutant: the limit of 18 is not tested
CanAppendBelowOnly ==
    /\ i < Len(lesson_codes)
    /\ total_words < CombineBelow

\* the next lesson joins the week
CanAppend ==
    /\ i < Len(lesson_codes)
    /\ total_words < CombineBelow
    /\ total_words + Len(LessonOf(lessons, lesson_codes[i + 1]).keywords) <= CombineLimit

\* mutant: the joined lesson is not stepped over
AutoAppendLessonNoAdvance ==
    /\ pc = "auto_group"
    /\ CanAppend
    /\ LET next_lesson == lesson_codes[i + 1]
           next_kw == LessonOf(lessons, next_lesson).keywords
           ht == LessonOf(lessons, next_lesson).is_ht_only
       IN /\ week_lessons' = Append(week_lessons, next_lesson)
          /\ week_keywords_ht' = IF ht THEN week_keywords_ht \o next_kw ELSE week_keywords_ht
          /\ week_keywords_foundation' =
                IF ht THEN week_keywords_foundation ELSE week_keywords_foundation \o next_kw
          /\ total_words' = total_words + Len(next_kw)
    /\ UNCHANGED <<aside, inputs, i, week_num, extension_words, week_foundation_norm,
                   pool_used_norm, weeks_config, topups, pc>>

AutoAppendLesson ==
    /\ pc = "auto_group"
    /\ CanAppend
    /\ LET next_lesson == lesson_codes[i + 1]
           next_kw == LessonOf(lessons, next_lesson).keywords
           ht == LessonOf(lessons, next_lesson).is_ht_only
       IN /\ week_lessons' = Append(week_lessons, next_lesson)
          /\ week_keywords_ht' = IF ht THEN week_keywords_ht \o next_kw ELSE week_keywords_ht
          /\ week_keywords_foundation' =
                IF ht THEN week_keywords_foundation ELSE week_keywords_foundation \o next_kw
          /\ total_words' = total_words + Len(next_kw)
    /\ i' = i + 1
    /\ UNCHANGED <<aside, inputs, week_num, extension_words, week_foundation_norm,
                   pool_used_norm, weeks_config, topups, pc>>

\* the week closes: dedupe both tiers, then split them
AutoCloseWeek ==
    /\ pc = "auto_group"
    /\ ~CanAppend
    /\ LET split == SplitTier(dedupe(week_keywords_foundation), dedupe(week_keywords_ht))
       IN /\ week_keywords_ht' = dedupe(week_keywords_ht)
          /\ week_keywords_foundation' = split.foundation
          /\ extension_words' = split.extension
          /\ week_foundation_norm' = NormSet(split.foundation)
    /\ pc' = "auto_pad"
    /\ UNCHANGED <<aside, inputs, i, week_num, week_lessons, total_words, pool_used_norm,
                   weeks_config, topups>>

\* mutant: an empty list is topped up as well
PadFromPoolEvenIfEmpty ==
    /\ Len(week_keywords_foundation) < FoundationMin
    /\ LET k == PoolPick(pool, week_foundation_norm, pool_used_norm)
       IN /\ k # 0
          /\ week_keywords_foundation' = Append(week_keywords_foundation, pool[k])
          /\ week_foundation_norm' = week_foundation_norm \cup {normalize_kw(pool[k])}
          /\ pool_used_norm' = pool_used_norm \cup {normalize_kw(pool[k])}
          /\ topups' = Append(topups, [week |-> week_num, index |-> k, word |-> pool[k]])
    /\ UNCHANGED <<aside, inputs, i, week_num, week_lessons, week_keywords_ht, total_words,
                   extension_words, weeks_config, pc>>

\* mutant: the entries the scan passes over are marked used as well
PadFromPoolMarkingPassed ==
    /\ Len(week_keywords_foundation) < FoundationMin
    /\ week_keywords_foundation # <<>>
    /\ LET k == PoolPick(pool, week_foundation_norm, pool_used_norm)
       IN /\ k # 0
          /\ week_keywords_foundation' = Append(week_keywords_foundation, pool[k])
          /\ week_foundation_norm' = week_foundation_norm \cup {normalize_kw(pool[k])}
          /\ pool_used_norm' = pool_used_norm \cup {normalize_kw(pool[j]) : j \in 1..k}
          /\ topups' = Append(topups, [week |-> week_num, index |-> k, word |-> pool[k]])
    /\ UNCHANGED <<aside, inputs, i, week_num, week_lessons, week_keywords_ht, total_words,
                   extension_words, weeks_config, pc>>

\* mutant: the normalized form of the pool entry is appended
PadFromPoolNormalized ==
    /\ Len(week_keywords_foundation) < FoundationMin
    /\ week_keywords_foundation # <<>>
    /\ LET k == PoolPick(pool, week_foundation_norm, pool_used_norm)
       IN /\ k # 0
          /\ week_keywords_foundation' = Append(week_keywords_foundation, normalize_kw(pool[k]))
          /\ week_foundation_norm' = week_foundation_norm \cup {normalize_kw(pool[k])}
          /\ pool_used_norm' = pool_used_norm \cup {normalize_kw(pool[k])}
          /\ topups' = Append(topups, [week |-> week_num, index |-> k, word |-> pool[k]])
    /\ UNCHANGED <<aside, inputs, i, week_num, week_lessons, week_keywords_ht, total_words,
                   extension_words, weeks_config, pc>>

\* one padding step that finds a pool entry
PadFromPool ==
    /\ Len(week_keywords_foundation) < FoundationMin
    /\ week_keywords_foundation # <<>>
    /\ LET k == PoolPick(pool, week_foundation_norm, pool_used_norm)
       IN /\ k # 0
          /\ week_keywords_foundation' = Append(week_keywords_foundation, pool[k])
          /\ week_foundation_norm' = week_foundation_norm \cup {normalize_kw(pool[k])}
          /\ pool_used_norm' = pool_used_norm \cup {normalize_kw(pool[k])}
          /\ topups' = Append(topups, [week |-> week_num, index |-> k, word |-> pool[k]])
    /\ UNCHANGED <<aside, inputs, i, week_num, week_lessons, week_keywords_ht, total_words,
                   extension_words, weeks_config, pc>>

\* mutant: the list is deduplicated again after the repeat
PadRepeatThenDedupe ==
    /\ Len(week_keywords_foundation) < FoundationMin
    /\ week_keywords_foundation # <<>>
    /\ PoolPick(pool, week_foundation_norm, pool_used_norm) = 0
    /\ week_keywords_foundation' =
          dedupe(Append(week_keywords_foundation, RepeatWord(week_keywords_foundation)))
    /\ UNCHANGED <<aside, inputs, i, week_num, week_lessons, week_keywords_ht, total_words,
                   extension_words, week_foundation_norm, pool_used_norm, weeks_config,
                   topups, pc>>

\* one padding step that finds none and repeats a word of the list
PadRepeat ==
    /\ Len(week_keywords_foundation) < FoundationMin
    /\ week_keywords_foundation # <<>>
    /\ PoolPick(pool, week_foundation_norm, pool_used_norm) = 0
    /\ week_keywords_foundation' =
          Append(week_keywords_foundation, RepeatWord(week_keywords_foundation))
    /\ UNCHANGED <<aside, inputs, i, week_num, week_lessons, week_keywords_ht, total_words,
                   extension_words, week_foundation_norm, pool_used_norm, weeks_config,
                   topups, pc>>

\* mutant: the padding loop is also left when the pool has nothing to give
PadDoneWhenPoolExhausted ==
    \/ Len(week_keywords_foundation) >= FoundationMin
    \/ week_keywords_foundation = <<>>
    \/ PoolPick(pool, week_foundation_norm, pool_used_norm) = 0

\* the padding loop is left
PadDone == Len(week_keywords_foundation) >= FoundationMin \/ week_keywords_foundation = <<>>

AutoPadFromPool == pc = "auto_pad" /\ PadFromPool
AutoPadRepeat == pc = "auto_pad" /\ PadRepeat

\* mutant: the stop test reads the week number before it is advanced
AutoEmitWeekLateStop ==
    /\ pc = "auto_pad"
    /\ PadDone
    /\ week_keywords_foundation' = CapFoundation(week_keywords_foundation)
    /\ weeks_config' = Store(weeks_config, week_num,
                             WeekRecord(lessons, week_lessons,
                                        CapFoundation(CapFoundation(week_keywords_foundation)),
                                        CapExtension(extension_words)))
    /\ week_num' = week_num + 1
    /\ pc' = IF max_weeks # 0 /\ week_num > max_weeks THEN "done" ELSE "auto_week"
    /\ UNCHANGED <<aside, inputs, i, week_lessons, week_keywords_ht, total_words,
                   extension_words, week_foundation_norm, pool_used_norm, topups>>

\* cap, store the week, count it, and stop at max_weeks
AutoEmitWeek ==
    /\ pc = "auto_pad"
    /\ PadDone
    /\ week_keywords_foundation' = CapFoundation(week_keywords_foundation)
    /\ weeks_config' = Store(weeks_config, week_num,
                             WeekRecord(lessons, week_lessons,
                                        CapFoundation(CapFoundation(week_keywords_foundation)),
                                        CapExtension(extension_words)))
    /\ week_num' = week_num + 1
    /\ pc' = IF max_weeks # 0 /\ week_num + 1 > max_weeks THEN "done" ELSE "auto_week"
    /\ UNCHANGED <<aside, inputs, i, week_lessons, week_keywords_ht, total_words,
                   extension_words, week_foundation_norm, pool_used_norm, topups>>

\* the lessons are used up
AutoReturn ==
    /\ pc = "auto_week"
    /\ i >= Len(lesson_codes)
    /\ pc' = "done"
    /\ UNCHANGED <<aside, inputs, i, week_num, week_lessons, week_keywords_foundation,
                   week_keywords_ht, total_words, extension_words, week_foundation_norm,
                   pool_used_norm, weeks_config, topups>>

(* ------------------------------------------------------------------ *)
(* build_weeks_config_from_assignments                                *)
(* ------------------------------------------------------------------ *)
\* mutant: a week with no lesson left is stored with empty lists
ExplicitSkipWeekStored ==
    /\ pc = "exp_week"
    /\ week_num <= Len(week_lesson_codes)
    /\ FilterWeek(lessons, week_lesson_codes[week_num]) = <<>>
    /\ week_lessons' = <<>>
    /\ weeks_config' = Store(weeks_config, week_num, WeekRecord(lessons, <<>>, <<>>, <<>>))
    /\ week_num' = week_num + 1
    /\ UNCHANGED <<aside, inputs, i, week_keywords_foundation, week_keywords_ht, total_words,
                   extension_words, week_foundation_norm, pool_used_norm, topups, pc>>

\* an input week with no lesson left after the filter is passed over
ExplicitSkipWeek ==
    /\ pc = "exp_week"
    /\ week_num <= Len(week_lesson_codes)
    /\ FilterWeek(lessons, week_lesson_codes[week_num]) = <<>>
    /\ week_lessons' = <<>>
    /\ week_num' = week_num + 1
    /\ UNCHANGED <<aside, inputs, i, week_keywords_foundation, week_keywords_ht, total_words,
                   extension_words, week_foundation_norm, pool_used_norm, weeks_config,
                   topups, pc>>

\* the week's lessons are collected, deduplicated and split
ExplicitOpenWeek ==
    /\ pc = "exp_week"
    /\ week_num <= Len(week_lesson_codes)
    /\ LET members == FilterWeek(lessons, week_lesson_codes[week_num])
           ht == dedupe(TierKeywords(lessons, members, TRUE))
           split == SplitTier(dedupe(TierKeywords(lessons, members, FALSE)), ht)
       IN /\ members # <<>>
          /\ week_lessons' = members
          /\ week_keywords_ht' = ht
          /\ week_keywords_foundation' = split.foundation
          /\ extension_words' = split.extension
          /\ week_foundation_norm' = NormSet(split.foundation)
    /\ pc' = "exp_pad"
    /\ UNCHANGED <<aside, inputs, i, week_num, total_words, pool_used_norm, weeks_config, topups>>

ExplicitPadFromPool == pc = "exp_pad" /\ PadFromPool
ExplicitPadRepeat == pc = "exp_pad" /\ PadRepeat

\* cap and store the week under the position of the input week
ExplicitEmitWeek ==
    /\ pc = "exp_pad"
    /\ PadDone
    /\ week_keywords_foundation' = CapFoundation(week_keywords_foundation)
    /\ weeks_config' = Store(weeks_config, week_num,
                             WeekRecord(lessons, week_lessons,
                                        CapFoundation(week_keywords_foundation),
                                        CapExtension(extension_words)))
    /\ week_num' = week_num + 1
    /\ pc' = "exp_week"
    /\ UNCHANGED <<aside, inputs, i, week_lessons, week_keywords_ht, total_words,
                   extension_words, week_foundation_norm, pool_used_norm, topups>>

\* the input weeks are used up
ExplicitReturn ==
    /\ pc = "exp_week"
    /\ week_num > Len(week_lesson_codes)
    /\ pc' = "done"
    /\ UNCHANGED <<aside, inputs, i, week_num, week_lessons, week_keywords_foundation,
                   week_keywords_ht, total_words, extension_words, week_foundation_norm,
                   pool_used_norm, weeks_config, topups>>

Next ==
    \/ AutoStartWeek
    \/ AutoAppendLesson
    \/ AutoCloseWeek
    \/ AutoPadFromPool
    \/ AutoPadRepeat
    \/ AutoEmitWeek
    \/ AutoReturn
    \/ ExplicitSkipWeek
    \/ ExplicitOpenWeek
    \/ ExplicitPadFromPool
    \/ ExplicitPadRepeat
    \/ ExplicitEmitWeek
    \/ ExplicitReturn

Spec == Init /\ [][Next]_vars

Done == pc = "done"

(* ------------------------------------------------------------------ *)
(* A second invocation of the same builder with the same arguments     *)
(* ------------------------------------------------------------------ *)
\* mutant: the set of used pool words outlives the invocation
InvokeAgainKeepingUsed ==
    /\ pc = "done"
    /\ invocation = 1
    /\ invocation' = 2
    /\ first_result' = weeks_config
    /\ pool_used_norm' = pool_used_norm
    /\ weeks_config' = <<>>
    /\ week_num' = 1
    /\ i' = 0
    /\ week_lessons' = <<>>
    /\ week_keywords_foundation' = <<>>
    /\ week_keywords_ht' = <<>>
    /\ total_words' = 0
    /\ extension_words' = <<>>
    /\ week_foundation_norm' = {}
    /\ topups' = <<>>
    /\ pc' = IF mode = "auto" THEN "auto_week" ELSE "exp_week"
    /\ UNCHANGED <<inputs, call, argument, result, session>>

\* the caller calls the builder again: a new frame, whose locals are set by
\* lines 678-680 and 702-709 (821-822 and 834)
InvokeAgain ==
    /\ pc = "done"
    /\ invocation = 1
    /\ invocation' = 2
    /\ first_result' = weeks_config
    /\ pool_used_norm' = {}
    /\ weeks_config' = <<>>
    /\ week_num' = 1
    /\ i' = 0
    /\ week_lessons' = <<>>
    /\ week_keywords_foundation' = <<>>
    /\ week_keywords_ht' = <<>>
    /\ total_words' = 0
    /\ extension_words' = <<>>
    /\ week_foundation_norm' = {}
    /\ topups' = <<>>
    /\ pc' = IF mode = "auto" THEN "auto_week" ELSE "exp_week"
    /\ UNCHANGED <<inputs, call, argument, result, session>>

NextTwice == Next \/ InvokeAgain

SpecTwice == Init /\ [][NextTwice]_vars

(* ------------------------------------------------------------------ *)
(* The helper functions applied on their own: sorted(codes,            *)
(* key=lesson_sort_key), dedupe(keywords), normalize_kw(s)             *)
(* ------------------------------------------------------------------ *)
\* all lists of at most n elements of S
ListsUpTo(S, n) == UNION {[1..k -> S] : k \in 0..n}
Distinct(xs) == \A a, b \in 1..Len(xs) : a # b => xs[a] # xs[b]

CodeC4_2_10 == <<"C","4",".","2",".","1","0">>
CodeC4_2_2 == <<"C","4",".","2",".","2">>
CodeC4_2_1 == <<"C","4",".","2",".","1">>
CodeC4_10_1 == <<"C","4",".","1","0",".","1">>
CodeC4_2_x == <<"C","4",".","2",".","x">>
CodeC4_2 == <<"C","4",".","2">>
CodeC4 == <<"C","4">>
CodeC4_0_0 == <<"C","4",".","0",".","0">>
\* lesson codes: well-formed ones, one whose third part is no integer, one of
\* two parts, one of one part
CodeSamples == {CodeC4_2_10, CodeC4_2_2, CodeC4_2_1, CodeC4_10_1, CodeC4_0_0,
                CodeC4_2_x, CodeC4_2, CodeC4}
\* the keys of a lessons map: no code twice
CodeLists == {cs \in ListsUpTo(CodeSamples, MaxCodes) : Distinct(cs)}

\* keywords that differ in casing or spacing only, and others
KeywordSamples == {<<"m","o","l","e">>, <<"M","o","l","e">>, <<" ","m","o","l","e">>,
                   <<"m"," ","o","l","e">>, <<"m"," "," ","o","l","e">>, <<"i","o","n">>}
KeywordLists == ListsUpTo(KeywordSamples, MaxKeywords)

\* strings of whitespace, lower-case and upper-case letters
CharSamples == {" ", "\t", "a", "B", "ϒ"}
Strings == ListsUpTo(CharSamples, MaxChars)

InitPure ==
    /\ \/ call = "sorted" /\ argument \in CodeLists
       \/ call = "dedupe" /\ argument \in KeywordLists
       \/ call = "normalize_kw" /\ argument \in Strings
    /\ result = <<>>
    /\ pc = "call"
    /\ mode = "none"
    /\ lessons = <<>>
    /\ pool = <<>>
    /\ max_weeks = 0
    /\ week_lesson_codes = <<>>
    /\ lesson_codes = <<>>
    /\ i = 0
    /\ week_num = 1
    /\ week_lessons = <<>>
    /\ week_keywords_foundation = <<>>
    /\ week_keywords_ht = <<>>
    /\ total_words = 0
    /\ extension_words = <<>>
    /\ week_foundation_norm = {}
    /\ pool_used_norm = {}
    /\ weeks_config = <<>>
    /\ topups = <<>>
    /\ invocation = 1
    /\ first_result = <<>>
    /\ NoSession

\* the variables of a builder invocation
locals == <<i, week_num, week_lessons, week_keywords_foundation, week_keywords_ht,
            total_words, extension_words, week_foundation_norm, pool_used_norm,
            weeks_config, topups>>

\* sorted(codes, key=lesson_sort_key)
CallSorted ==
    /\ pc = "call" /\ call = "sorted"
    /\ result' = SortCodes(argument)
    /\ pc' = "returned"
    /\ UNCHANGED <<inputs, locals, call, argument, invocation, first_result, session>>

\* dedupe(keywords)
CallDedupe ==
    /\ pc = "call" /\ call = "dedupe"
    /\ result' = dedupe(argument)
    /\ pc' = "returned"
    /\ UNCHANGED <<inputs, locals, call, argument, invocation, first_result, session>>

\* normalize_kw(s)
CallNormalize ==
    /\ pc = "call" /\ call = "normalize_kw"
    /\ result' = normalize_kw(argument)
    /\ pc' = "returned"
    /\ UNCHANGED <<inputs, locals, call, argument, invocation, first_result, session>>

NextPure == CallSorted \/ CallDedupe \/ CallNormalize

SpecPure == InitPure /\ [][NextPure]_vars

(* ------------------------------------------------------------------ *)
(* daily_review_app.py: the PIN gate, one session of the app           *)
(* ------------------------------------------------------------------ *)
\* values of the environment variable and texts of the PIN box
PinChars == {" ", "1", "2"}
PinStrings == ListsUpTo(PinChars, MaxPinLen)

\* os.environ.get("DAILY_REVIEW_PIN", "").strip()
REQUIRED_PIN == Strip(DAILY_REVIEW_PIN)
\* if REQUIRED_PIN and not st.session_state.get("pin_ok")
GateClosed == REQUIRED_PIN # <<>> /\ ~pin_ok

InitPin ==
    /\ DAILY_REVIEW_PIN \in PinStrings
    /\ pin_ok = FALSE
    /\ pin_input = <<>>
    /\ screen = "none"
    /\ pc = "session"
    /\ call = "none"
    /\ argument = <<>>
    /\ result = <<>>
    /\ mode = "none"
    /\ lessons = <<>>
    /\ pool = <<>>
    /\ max_weeks = 0
    /\ week_lesson_codes = <<>>
    /\ lesson_codes = <<>>
    /\ i = 0
    /\ week_num = 1
    /\ week_lessons = <<>>
    /\ week_keywords_foundation = <<>>
    /\ week_keywords_ht = <<>>
    /\ total_words = 0
    /\ extension_words = <<>>
    /\ week_foundation_norm = {}
    /\ pool_used_norm = {}
    /\ weeks_config = <<>>
    /\ topups = <<>>
    /\ invocation = 1
    /\ first_result = <<>>

\* mutant: the gate is passed once a PIN has been typed
ScriptRunOpenOnInput ==
    /\ pc = "session"
    /\ screen' = IF GateClosed /\ pin_input = <<>> THEN "pin_screen" ELSE "app"
    /\ UNCHANGED <<inputs, locals, pc, call, argument, result, invocation, first_result,
                   DAILY_REVIEW_PIN, pin_ok, pin_input>>

\* a script run without a click on Submit: the first run of the session, the
\* run after st.rerun(), a run set off by a widget of the app; it stops at
\* the PIN screen (st.stop, line 46) or goes on to the app (line 48 on)
ScriptRun ==
    /\ pc = "session"
    /\ screen' = IF GateClosed THEN "pin_screen" ELSE "app"
    /\ UNCHANGED <<inputs, locals, pc, call, argument, result, invocation, first_result,
                   DAILY_REVIEW_PIN, pin_ok, pin_input>>

\* the user changes the text of the PIN box, which sets off a script run
TypePin ==
    /\ pc = "session"
    /\ screen \in {"pin_screen", "pin_error"}
    /\ \E p \in PinStrings : pin_input' = p
    /\ screen' = IF GateClosed THEN "pin_screen" ELSE "app"
    /\ UNCHANGED <<inputs, locals, pc, call, argument, result, invocation, first_result,
                   DAILY_REVIEW_PIN, pin_ok>>

\* the user clicks Submit: the script run in which st.button returns True
\* (lines 40-46); after st.rerun() the next step is a ScriptRun
SubmitPin ==
    /\ pc = "session"
    /\ screen \in {"pin_screen", "pin_error"}
    /\ IF ~GateClosed
       THEN screen' = "app" /\ pin_ok' = pin_ok
       ELSE IF pin_input = REQUIRED_PIN
            THEN pin_ok' = TRUE /\ screen' = "rerun"
            ELSE pin_ok' = pin_ok /\ screen' = "pin_error"
    /\ UNCHANGED <<inputs, locals, pc, call, argument, result, invocation, first_result,
                   DAILY_REVIEW_PIN, pin_input>>

NextPin == ScriptRun \/ TypePin \/ SubmitPin

SpecPin == InitPin /\ [][NextPin]_vars

(* ------------------------------------------------------------------ *)
(* Properties                                                         *)
(* ------------------------------------------------------------------ *)
WeekNums == DOMAIN weeks_config
Week(w) == weeks_config[w]
\* the deduplicated candidates the member lessons of a stored week contribute
CoreCandidates(w) == dedupe(TierKeywords(lessons, Week(w).member_lessons, FALSE))
ExtCandidates(w) == dedupe(TierKeywords(lessons, Week(w).member_lessons, TRUE))
\* no two entries with the same normalized form
NoDup(xs) == \A a, b \in 1..Len(xs) : a # b => normalize_kw(xs[a]) # normalize_kw(xs[b])
SeqSet(xs) == {xs[k] : k \in 1..Len(xs)}
\* the lessons whose title has the marker
FeedbackCodes == {lessons[k].code : k \in {m \in 1..Len(lessons) : Contains(lessons[m].title, FeedbackMarker)}}
AllCodes == {lessons[k].code : k \in 1..Len(lessons)}

\* C1: a stored week whose member lessons contribute a core-tier keyword has
\* between 10 and 15 foundation words, whatever the pool.
C1_CoreLengthInRange ==
    \A w \in WeekNums :
        TierKeywords(lessons, Week(w).member_lessons, FALSE) # <<>>
            => /\ Len(Week(w).foundation) >= 10
               /\ Len(Week(w).foundation) <= 15
\* a week with two core keywords and no pool, padded by repeats alone
C1_Witness ==
    /\ pc = "done"
    /\ pool = <<>>
    /\ \E w \in WeekNums : /\ Len(CoreCandidates(w)) = 2
                           /\ ExtCandidates(w) = <<>>
                           /\ Len(Week(w).foundation) = 10

\* C2 (as claimed): a week whose deduplicated extension and core candidates
\* total at least 5 has exactly 5 extension words.
C2_ExtensionExactlyFive ==
    \A w \in WeekNums :
        Len(ExtCandidates(w)) + Len(CoreCandidates(w)) >= 5
            => Len(Week(w).extension) = 5

\* C3: no two top-ups of one run have the same normalized form, in the same
\* week or in different weeks.
C3_TopUpOnce ==
    \A a, b \in 1..Len(topups) :
        a # b => normalize_kw(topups[a].word) # normalize_kw(topups[b].word)
\* two weeks topped up from a pool that lists a word twice; the second week
\* passes over an entry the first week used
C3_Witness ==
    /\ pc = "done"
    /\ ~NoDup(pool)
    /\ \E a, b \in 1..Len(topups) :
          /\ topups[a].week < topups[b].week
          /\ topups[a].index < topups[b].index
          /\ \E k \in 1..(topups[b].index - 1) :
                normalize_kw(pool[k]) = normalize_kw(topups[a].word)

\* C4 (as claimed): the foundation list and the extension list of every stored
\* week have no two entries with the same normalized form.
C4_ListsDeduplicated ==
    \A w \in WeekNums : NoDup(Week(w).foundation) /\ NoDup(Week(w).extension)

\* the input weeks of explicit mode that keep a lesson: some code is a lesson
\* whose title has no marker
Survives(codes) == \E k \in 1..Len(codes) : codes[k] \in AllCodes \ FeedbackCodes
SurvivingWeeks == {n \in 1..Len(week_lesson_codes) : Survives(week_lesson_codes[n])}

\* C5 (as claimed): explicit mode returns the keys 1..k, k the number of input
\* weeks that keep a lesson.
C5_KeysCompacted ==
    (mode = "explicit" /\ pc = "done")
        => WeekNums = 1..Cardinality(SurvivingWeeks)

\* C6: explicit mode returns as many weeks as input weeks keep a lesson, and
\* no stored week is without lessons.
C6_EmptyWeeksDropped ==
    mode = "explicit"
        => /\ \A w \in WeekNums : Week(w).member_lessons # <<>>
           /\ pc = "done" => Cardinality(WeekNums) = Cardinality(SurvivingWeeks)
\* two input weeks; the first holds only an unknown code and a Feedback lesson
\* and is dropped, the second is stored
C6_Witness ==
    /\ mode = "explicit"
    /\ pc = "done"
    /\ Len(week_lesson_codes) = 2
    /\ week_lesson_codes[1] # <<>>
    /\ SeqSet(week_lesson_codes[1]) \cap FeedbackCodes # {}
    /\ ~Survives(week_lesson_codes[1])
    /\ Cardinality(WeekNums) = 1

\* the member lessons of weeks 1..n, in week order
RECURSIVE MembersUpTo(_)
MembersUpTo(n) ==
    IF n = 0 THEN <<>>
    ELSE MembersUpTo(n - 1) \o (IF n \in WeekNums THEN Week(n).member_lessons ELSE <<>>)
Allocated == MembersUpTo(week_num)
\* a does not come after b in lesson order
NotAfter(a, b) == ~KeyLess(lesson_sort_key(b), lesson_sort_key(a))

\* C7: in auto mode the allocated lessons are, in week order, a prefix of the
\* lessons without marker in lesson order, none twice; with max_weeks unset the
\* run ends with every such lesson in exactly one week.
C7_EveryLessonOnce ==
    mode = "auto"
        => /\ SeqSet(Allocated) \subseteq AllCodes \ FeedbackCodes
           /\ \A a, b \in 1..Len(Allocated) :
                 a < b => /\ Allocated[a] # Allocated[b]
                          /\ NotAfter(Allocated[a], Allocated[b])
           /\ \A lc \in (AllCodes \ FeedbackCodes) \ SeqSet(Allocated) :
                 \A a \in 1..Len(Allocated) : NotAfter(Allocated[a], lc)
           /\ (pc = "done" /\ max_weeks = 0)
                 => SeqSet(Allocated) = AllCodes \ FeedbackCodes
\* two lessons listed against lesson order end up in two weeks, in lesson order
C7_Witness ==
    /\ mode = "auto"
    /\ pc = "done"
    /\ max_weeks = 0
    /\ Cardinality(WeekNums) = 2
    /\ Allocated = <<CodeX11, CodeX12>>

\* where a stored word may come from: the keywords of the week's member lessons
\* and the pool
WeekSources(w) ==
    UNION {SeqSet(LessonOf(lessons, Week(w).member_lessons[k]).keywords)
           : k \in 1..Len(Week(w).member_lessons)}
    \cup SeqSet(pool)

\* C8: no lesson with the marker in its title is a member of a stored week, in
\* either mode, and every stored word is a keyword of a member lesson or a
\* pool entry; the running count of an open week counts its members only.
C8_FeedbackExcluded ==
    /\ \A w \in WeekNums :
          /\ SeqSet(Week(w).member_lessons) \cap FeedbackCodes = {}
          /\ SeqSet(Week(w).foundation) \cup SeqSet(Week(w).extension) \subseteq WeekSources(w)
    /\ pc = "auto_group"
          => /\ SeqSet(week_lessons) \cap FeedbackCodes = {}
             /\ total_words = Len(TierKeywords(lessons, week_lessons, TRUE))
                              + Len(TierKeywords(lessons, week_lessons, FALSE))
\* a run over a Feedback lesson and another lesson that stores a week
C8_Witness ==
    /\ pc = "done"
    /\ FeedbackCodes # {}
    /\ WeekNums # {}
    /\ \/ mode = "auto"
       \/ \E n \in 1..Len(week_lesson_codes) :
             /\ SeqSet(week_lesson_codes[n]) \cap FeedbackCodes # {}
             /\ n \in WeekNums

\* the scenario of C9
C9_Scenario ==
    /\ mode = "auto"
    /\ pool = <<>>
    /\ max_weeks = 1
    /\ Len(lessons) = 2
    /\ LessonOf(lessons, CodeX11) = [code |-> CodeX11, title |-> LessonIntro.title,
                                     keywords |-> <<alpha, beta>>, is_ht_only |-> FALSE]
    /\ LessonOf(lessons, CodeX12) = [code |-> CodeX12, title |-> LessonDetail.title,
                                     keywords |-> <<gamma, delta, epsilon, zeta, eta>>,
                                     is_ht_only |-> TRUE]
C9_OneWeekBothLessons ==
    /\ WeekNums = {1}
    /\ Week(1).member_lessons = <<CodeX11, CodeX12>>
    /\ Week(1).extension = <<gamma, delta, epsilon, zeta, eta>>

C10_ListsCapped ==
    \A w \in WeekNums : Len(Week(w).foundation) <= 15 /\ Len(Week(w).extension) <= 5
\* a week in each mode whose lessons give more than 15 foundation words after the split
C10_Witness ==
    /\ pc = "done"
    /\ \E w \in WeekNums :
          /\ Len(Week(w).foundation) = 15
          /\ Len(SplitTier(CoreCandidates(w), ExtCandidates(w)).foundation) > 15

\* a bound on the steps one week takes: open, close, store and the padding steps
WeekSteps == FoundationMin + 4
\* how far the padding loop of the open week is from its exit
PadLeft ==
    IF Len(week_keywords_foundation) >= FoundationMin THEN 0
    ELSE FoundationMin - Len(week_keywords_foundation)
\* a measure of the work left in a run
Rank ==
    CASE pc = "done" -> 0
      [] pc = "auto_week" -> (Len(lesson_codes) - i) * WeekSteps + 1
      [] pc = "auto_group" -> (Len(lesson_codes) - i) * WeekSteps + FoundationMin + 3
      [] pc = "auto_pad" -> (Len(lesson_codes) - i) * WeekSteps + 2 + PadLeft
      [] pc = "exp_week" -> (Len(week_lesson_codes) + 1 - week_num) * WeekSteps + 1
      [] pc = "exp_pad" -> (Len(week_lesson_codes) - week_num) * WeekSteps + 2 + PadLeft

\* every state that has not returned can take a step that changes the state
CanStep ==
    CASE pc = "done" -> TRUE
      [] pc = "auto_week" -> ENABLED <<AutoStartWeek \/ AutoReturn>>_vars
      [] pc = "auto_group" -> ENABLED <<AutoAppendLesson>>_vars \/ ~CanAppend
      [] pc = "auto_pad" ->
            ENABLED <<AutoPadFromPool \/ AutoPadRepeat \/ AutoEmitWeek>>_vars
      [] pc = "exp_week" ->
            \/ ENABLED <<ExplicitSkipWeek \/ ExplicitReturn>>_vars
            \/ /\ week_num <= Len(week_lesson_codes)
               /\ FilterWeek(lessons, week_lesson_codes[week_num]) # <<>>
      [] pc = "exp_pad" ->
            ENABLED <<ExplicitPadFromPool \/ ExplicitPadRepeat \/ ExplicitEmitWeek>>_vars

\* C11: the padding loop terminates and both builders return for every input:
\* a builder that has not returned can always take a state-changing step,
\* and every step strictly lowers a natural-number rank that is 0 exactly at
\* the return, so no run has infinitely many steps
C11_BuildersReturn ==
    /\ [](Rank >= 0 /\ (Rank = 0 <=> pc = "done") /\ CanStep)
    /\ [][Rank' < Rank]_vars

\* a returned run with a non-empty pool whose week was padded first from the
\* pool and then, the pool exhausted, by repeating a word
C11_Witness ==
    /\ pc = "done"
    /\ pool # <<>>
    /\ \E w \in WeekNums :
          /\ \E a \in 1..Len(topups) : topups[a].week = w
          /\ ~NoDup(Week(w).foundation)
          /\ Len(Week(w).foundation) = FoundationMin

\* C12 as stated: over the whole run, a pool entry appended as a top-up
\* before another stands before it in the pool list
C12_PoolOrderAcrossRun ==
    \A a, b \in 1..Len(topups) :
        a < b => topups[a].index < topups[b].index

\* C12: within one week top-ups are taken in pool order; a top-up of a later
\* week may stand before an earlier top-up in the pool, and then it is an
\* entry the earlier week passed over because its normalized form was
\* already in that week's core list
C12_PoolOrderWithinWeek ==
    \A a, b \in 1..Len(topups) :
        a < b =>
            \/ topups[a].index < topups[b].index
            \/ /\ topups[a].week < topups[b].week
               /\ topups[a].index > topups[b].index
               /\ normalize_kw(pool[topups[b].index])
                     \in NormSet(Week(topups[a].week).foundation)

\* a returned run whose second week was topped up with an entry that stands
\* before the entries the first week took, and whose first week took several
C12_Witness ==
    /\ pc = "done"
    /\ \E a, b, c \in 1..Len(topups) :
          /\ a < b /\ b < c
          /\ topups[a].week = topups[b].week
          /\ topups[b].week < topups[c].week
          /\ topups[c].index < topups[a].index

\* the index after the last lesson of the week that opens before index k - 1
\* and has the running count total (the inner loop of lines 727-739)
RECURSIVE GroupEnd(_, _, _)
GroupEnd(sizes, k, total) ==
    IF k <= Len(sizes) /\ total < CombineBelow /\ total + sizes[k] <= CombineLimit
    THEN GroupEnd(sizes, k + 1, total + sizes[k])
    ELSE k
\* the number of weeks the lessons from index k on fill (lines 711-739)
RECURSIVE WeeksFrom(_, _)
WeeksFrom(sizes, k) ==
    IF k > Len(sizes) THEN 0
    ELSE 1 + WeeksFrom(sizes, GroupEnd(sizes, k + 1, sizes[k]))
\* the number of weeks the grouped lessons of the run fill without a limit
WeeksFilled ==
    WeeksFrom([k \in 1..Len(lesson_codes) |->
                   Len(LessonOf(lessons, lesson_codes[k]).keywords)], 1)
Min(a, b) == IF a <= b THEN a ELSE b

\* C13: with max_weeks = k >= 1 the auto builder stops as soon as k weeks are
\* stored, and the returned map has the keys 1..min(k, weeks the lessons fill)
C13_MaxWeeksStops ==
    (mode = "auto" /\ max_weeks >= 1) =>
        /\ Cardinality(WeekNums) = max_weeks => pc = "done"
        /\ pc = "done" => WeekNums = 1..Min(max_weeks, WeeksFilled)

\* a returned run that max_weeks = 1 cut short of the two weeks its lessons fill
C13_Witness ==
    /\ mode = "auto" /\ pc = "done"
    /\ max_weeks = 1
    /\ WeeksFilled = 2
    /\ WeekNums = {1}
    /\ i < Len(lesson_codes)

Returned(f) == call = f /\ pc = "returned"
\* a code the sort key reads as (part 1, int part 2, int part 3)
WellFormed(lc) ==
    LET parts == Split(lc, ".")
    IN Len(parts) >= 3 /\ IsInt(parts[2]) /\ IsInt(parts[3])
CodeTuple(lc) ==
    LET parts == Split(lc, ".")
    IN <<parts[1], ParseInt(parts[2]), ParseInt(parts[3])>>
\* s <= t for tuples (str, int, int)
TupleLeq(s, t) ==
    \/ StrLess(s[1], t[1])
    \/ s[1] = t[1] /\ (s[2] < t[2] \/ (s[2] = t[2] /\ s[3] <= t[3]))
\* ys is xs in another order (no element twice)
Permutation(xs, ys) == Len(xs) = Len(ys) /\ SeqSet(xs) = SeqSet(ys)

\* C14: sorting by the lesson sort key returns the codes with the well-formed
\* ones in the order of (part 1 as string, part 2 as integer, part 3 as
\* integer), and [C4.2.10, C4.2.2, C4.2.1] sorts to [C4.2.1, C4.2.2, C4.2.10]
C14_SortByNumericKey ==
    Returned("sorted") =>
        /\ Permutation(argument, result)
        /\ \A a, b \in 1..Len(result) :
              (a < b /\ WellFormed(result[a]) /\ WellFormed(result[b]))
                  => TupleLeq(CodeTuple(result[a]), CodeTuple(result[b]))
        /\ argument = <<CodeC4_2_10, CodeC4_2_2, CodeC4_2_1>>
              => result = <<CodeC4_2_1, CodeC4_2_2, CodeC4_2_10>>

\* the example of the claim has been sorted, and not into text order
C14_Witness ==
    /\ Returned("sorted")
    /\ argument = <<CodeC4_2_10, CodeC4_2_2, CodeC4_2_1>>
    /\ result = <<CodeC4_2_1, CodeC4_2_2, CodeC4_2_10>>
    /\ StrLess(CodeC4_2_10, CodeC4_2_2)

\* the indices of L that hold the first occurrence of their normalized form
FirstOccurrences(L) ==
    {k \in 1..Len(L) : \A j \in 1..(k - 1) : normalize_kw(L[j]) # normalize_kw(L[k])}
\* the elements of L at the indices of K, in the order of L
RECURSIVE Restrict(_, _)
Restrict(L, K) ==
    IF L = <<>> THEN <<>>
    ELSE LET front == Restrict(SubSeq(L, 1, Len(L) - 1), K)
         IN IF Len(L) \in K THEN Append(front, L[Len(L)]) ELSE front

\* C15: dedupe(L) has no two elements with the same normalized form and is
\* the subsequence of L made of the first occurrence of every normalized
\* form, each as it is written in L
C15_DedupeKeepsFirst ==
    Returned("dedupe") =>
        /\ NoDup(result)
        /\ result = Restrict(argument, FirstOccurrences(argument))
        /\ NormSet(result) = NormSet(argument)

\* a list whose second and third keywords repeat the first in other casing
\* and spacing has been deduplicated to the first as written
C15_Witness ==
    /\ Returned("dedupe")
    /\ Len(argument) = 3
    /\ argument[1] # NormalizeChars(argument[1])
    /\ argument[2] # argument[1] /\ argument[3] # argument[1] /\ argument[2] # argument[3]
    /\ result = <<argument[1]>>

\* an upper-case letter
IsUpper(c) == InSeq(UpperCase, c) \/ c \in UpperOnly
\* no whitespace at either end and no two whitespace characters in a row
Trimmed(s) ==
    /\ s # <<>> => ~IsSpace(s[1]) /\ ~IsSpace(s[Len(s)])
    /\ \A k \in 1..(Len(s) - 1) : ~(IsSpace(s[k]) /\ IsSpace(s[k + 1]))

\* C16 as stated: normalize_kw is idempotent and its result has no leading or
\* trailing whitespace, no run of whitespace and no upper-case letter
C16_NormalizeNoUpperCase ==
    Returned("normalize_kw") =>
        /\ normalize_kw(result) = result
        /\ Trimmed(result)
        /\ \A k \in 1..Len(result) : ~IsUpper(result[k])

\* C16: normalize_kw is idempotent; its result has no leading or trailing
\* whitespace, no run of whitespace, and no upper-case letter apart from
\* letters that have no lower-case form, which str.lower leaves as they are
C16_NormalizeIdempotent ==
    Returned("normalize_kw") =>
        /\ normalize_kw(result) = result
        /\ Trimmed(result)
        /\ \A k \in 1..Len(result) : IsUpper(result[k]) => result[k] \in UpperOnly
        /\ \A k \in 1..Len(result) : LowerChar(result[k]) = result[k]

\* "B \tY" with Y the capital without lower-case form has been normalized:
\* B lowered, the run collapsed, the capital kept
C16_Witness ==
    /\ Returned("normalize_kw")
    /\ argument = <<"B", " ", "\t", "ϒ">>
    /\ result = <<"b", " ", "ϒ">>

\* the input leaves no lesson to allocate: no lesson apart from Feedback
\* lessons (auto mode), no input week that keeps a lesson (explicit mode)
EmptyInput ==
    \/ mode = "auto" /\ AllCodes \ FeedbackCodes = {}
    \/ mode = "explicit" /\ SurvivingWeeks = {}

\* C17: on an input that leaves no lesson to allocate, either builder goes
\* straight to its return, with an empty map and no pool word marked used
C17_EmptyInputEmptyMap ==
    EmptyInput =>
        /\ weeks_config = <<>>
        /\ pool_used_norm = {}
        /\ topups = <<>>
        /\ pc \in {"auto_week", "exp_week", "done"}
        /\ pc = "auto_week" => i >= Len(lesson_codes)

\* explicit mode has returned on two input weeks, one of them naming a
\* Feedback lesson, with a pool at hand
C17_Witness ==
    /\ mode = "explicit" /\ pc = "done"
    /\ EmptyInput
    /\ Len(week_lesson_codes) = 2
    /\ \E n \in 1..2 : \E k \in 1..Len(week_lesson_codes[n]) :
          week_lesson_codes[n][k] \in FeedbackCodes
    /\ pool # <<>>
    /\ weeks_config = <<>>

KeywordCount(lc) == Len(LessonOf(lessons, lc).keywords)
\* the running count of a week after its first j member lessons
RECURSIVE RunningCount(_, _)
RunningCount(members, j) ==
    IF j = 0 THEN 0 ELSE RunningCount(members, j - 1) + KeywordCount(members[j])

\* C19: in auto mode a stored week starts with the next unassigned lesson
\* whatever its size; each further member joined when the running count was
\* below 12 and did not pass 18 with it; and when a lesson is left after the
\* week, the week's count is at least 12 or that lesson would pass 18
C19_GroupingRule ==
    mode = "auto" =>
        \A w \in WeekNums :
            LET members == Week(w).member_lessons
                first == Len(MembersUpTo(w - 1)) + 1
                after == Len(MembersUpTo(w)) + 1
                total == RunningCount(members, Len(members))
            IN /\ members # <<>>
               /\ members = SubSeq(lesson_codes, first, after - 1)
               /\ \A j \in 2..Len(members) :
                     /\ RunningCount(members, j - 1) < CombineBelow
                     /\ RunningCount(members, j) <= CombineLimit
               /\ Len(members) >= 2 => total <= CombineLimit
               /\ after <= Len(lesson_codes) =>
                     \/ total >= CombineBelow
                     \/ total + KeywordCount(lesson_codes[after]) > CombineLimit

\* a returned run whose first week closed with one lesson and fewer than 12
\* keywords, because the next lesson, stored alone with more than 18 keywords,
\* would have passed 18
C19_Witness ==
    /\ mode = "auto" /\ pc = "done"
    /\ Cardinality(WeekNums) = 2
    /\ RunningCount(Week(1).member_lessons, 1) < CombineBelow
    /\ Len(Week(1).member_lessons) = 1
    /\ KeywordCount(Week(2).member_lessons[1]) > CombineLimit

\* C20: a stored week with fewer than 5 extension candidates and no more core
\* candidates than the 5 - len(extension candidates) still needed has all
\* its core candidates moved to the end of extension_words, and none left
\* in the core list
C20_ShortExtensionTakesAllCore ==
    \A w \in WeekNums :
        LET needed == ExtensionCount - Len(ExtCandidates(w))
        IN (Len(ExtCandidates(w)) < ExtensionCount /\ Len(CoreCandidates(w)) <= needed)
               => /\ Week(w).extension = ExtCandidates(w) \o CoreCandidates(w)
                  /\ Week(w).foundation = <<>>

\* the words appended as top-ups to week w, in order
RECURSIVE TopupWords(_, _)
TopupWords(w, n) ==
    IF n = 0 THEN <<>>
    ELSE IF topups[n].week = w THEN Append(TopupWords(w, n - 1), topups[n].word)
         ELSE TopupWords(w, n - 1)
WeekTopups(w) == TopupWords(w, Len(topups))
\* the stored foundation list is start (cut to 15), then the week's top-ups,
\* then repeats of its first word
PaddedFrom(w, start) ==
    LET rest == Drop(Week(w).foundation, Len(start))
    IN /\ Take(Week(w).foundation, Len(start)) = Take(start, FoundationCap)
       /\ Take(rest, Len(WeekTopups(w))) = WeekTopups(w)
       /\ \A k \in (Len(WeekTopups(w)) + 1)..Len(rest) : rest[k] = Week(w).foundation[1]

\* C21: a stored week with e < 5 extension candidates and more than 5 - e core
\* candidates has as extension words the e candidates followed by the last
\* 5 - e core candidates in their order; its core list is the non-empty
\* rest of the core candidates, followed by nothing but padding
C21_BorrowLastCoreWords ==
    \A w \in WeekNums :
        LET e == Len(ExtCandidates(w))
            needed == ExtensionCount - e
            prefix == DropLastN(CoreCandidates(w), needed)
        IN (e < ExtensionCount /\ Len(CoreCandidates(w)) > needed)
               => /\ Week(w).extension = ExtCandidates(w) \o LastN(CoreCandidates(w), needed)
                  /\ Len(Week(w).extension) = ExtensionCount
                  /\ prefix # <<>>
                  /\ PaddedFrom(w, prefix)

\* a stored week with three extension candidates that borrowed the last two
\* of more than two core candidates
C21_Witness ==
    \E w \in WeekNums :
        /\ Len(ExtCandidates(w)) = 3
        /\ Len(CoreCandidates(w)) > 2
        /\ Week(w).extension = ExtCandidates(w) \o LastN(CoreCandidates(w), 2)

\* C22: a stored week with at least 5 extension candidates has as extension
\* words the first 5 of them, and as core list its core candidates followed
\* by the extension candidates from the 6th on, followed by nothing but padding
C22_OverflowJoinsCore ==
    \A w \in WeekNums :
        Len(ExtCandidates(w)) >= ExtensionCount
            => /\ Week(w).extension = Take(ExtCandidates(w), ExtensionCount)
               /\ PaddedFrom(w, CoreCandidates(w) \o Drop(ExtCandidates(w), ExtensionCount))

\* a stored week with core candidates and a sixth extension candidate, which
\* stands in its core list right after the core candidates
C22_Witness ==
    \E w \in WeekNums :
        /\ Len(ExtCandidates(w)) > ExtensionCount
        /\ CoreCandidates(w) # <<>>
        /\ Len(CoreCandidates(w)) < FoundationMin
        /\ Week(w).foundation[Len(CoreCandidates(w)) + 1] = ExtCandidates(w)[ExtensionCount + 1]

\* a step of the padding loop
PadStep ==
    /\ pc \in {"auto_pad", "exp_pad"}
    /\ pc' = pc
    /\ week_keywords_foundation' # week_keywords_foundation
\* the first pool index whose normalized form is neither in the core list
\* nor marked used, 0 when there is none
FirstNotInListNorUsed ==
    LET ok == {j \in 1..Len(pool) :
                  /\ normalize_kw(pool[j]) \notin NormSet(week_keywords_foundation)
                  /\ normalize_kw(pool[j]) \notin pool_used_norm}
    IN IF ok = {} THEN 0 ELSE CHOOSE j \in ok : \A m \in ok : j <= m
\* the same among the entries that are not blank
FirstUsable ==
    LET ok == {j \in 1..Len(pool) :
                  /\ normalize_kw(pool[j]) # <<>>
                  /\ normalize_kw(pool[j]) \notin NormSet(week_keywords_foundation)
                  /\ normalize_kw(pool[j]) \notin pool_used_norm}
    IN IF ok = {} THEN 0 ELSE CHOOSE j \in ok : \A m \in ok : j <= m
\* the step appends pool entry j and marks its normalized form, and no other, used
AppendsAndMarks(j) ==
    /\ week_keywords_foundation' = Append(week_keywords_foundation, pool[j])
    /\ pool_used_norm' = pool_used_norm \cup {normalize_kw(pool[j])}

\* C23 as stated: a padding step appends the first pool entry whose
\* normalized form is neither in the week's core list nor in pool_used, and
\* marks that form used
C23_AppendsFirstUnusedEntry ==
    [][(PadStep /\ FirstNotInListNorUsed # 0) => AppendsAndMarks(FirstNotInListNorUsed)]_vars

\* C23: a padding step takes place only on a core list that is non-empty and
\* shorter than 10; it appends the first pool entry that is not blank and
\* whose normalized form is neither in the week's core list nor in
\* pool_used, and marks that form, and no other, used; when there is no such
\* entry pool_used stays as it is
C23_AppendsFirstUsableEntry ==
    [][PadStep =>
          /\ week_keywords_foundation # <<>>
          /\ Len(week_keywords_foundation) < FoundationMin
          /\ IF FirstUsable # 0 THEN AppendsAndMarks(FirstUsable)
                                ELSE pool_used_norm' = pool_used_norm]_vars

\* a top-up has just been appended to the open week past a blank entry and
\* past an entry that is in the week's core list and is still not marked used
C23_Witness ==
    /\ pc \in {"auto_pad", "exp_pad"}
    /\ topups # <<>>
    /\ LET last == topups[Len(topups)]
       IN /\ last.week = week_num
          /\ week_keywords_foundation[Len(week_keywords_foundation)] = last.word
          /\ \E j \in 1..(last.index - 1) : normalize_kw(pool[j]) = <<>>
          /\ \E j \in 1..(last.index - 1) :
                /\ normalize_kw(pool[j]) \in NormSet(week_keywords_foundation)
                /\ normalize_kw(pool[j]) \notin pool_used_norm

\* the core list of stored week w when its first fallback step, if any, began:
\* what the split left, and the week's top-ups
BeforeRepeats(w) == SplitTier(CoreCandidates(w), ExtCandidates(w)).foundation \o WeekTopups(w)

\* C24: the fallback steps of a stored week repeat its core words in turn:
\* the k-th word appended by a fallback step is the k-th word of the list,
\* counted round and round, as it stood before the first fallback step
C24_FallbackCyclesThroughWords ==
    \A w \in WeekNums :
        LET start == BeforeRepeats(w)
        IN \A k \in (Len(start) + 1)..Len(Week(w).foundation) :
              Week(w).foundation[k] = start[((k - Len(start) - 1) % Len(start)) + 1]

\* the split leaves stored week w no core word
EmptyAfterSplit(w) == SplitTier(CoreCandidates(w), ExtCandidates(w)).foundation = <<>>

\* C25: the split leaves a week no core word exactly when it has no core
\* candidate and at most 5 extension candidates; such a week is stored with
\* an empty core list and no top-up, and while it is open no step appends to
\* its core list or changes pool_used
C25_EmptyCoreListNotPadded ==
    /\ [](\A w \in WeekNums :
             /\ EmptyAfterSplit(w) <=>
                   (CoreCandidates(w) = <<>> /\ Len(ExtCandidates(w)) <= ExtensionCount)
             /\ EmptyAfterSplit(w) =>
                   (Week(w).foundation = <<>> /\ WeekTopups(w) = <<>>))
    /\ []((pc \in {"auto_pad", "exp_pad"} /\ week_keywords_foundation = <<>>)
             => \A a \in 1..Len(topups) : topups[a].week # week_num)
    /\ [][(pc \in {"auto_pad", "exp_pad"} /\ week_keywords_foundation = <<>>)
             => (pool_used_norm' = pool_used_norm /\ topups' = topups
                 /\ week_keywords_foundation' = <<>>)]_vars

\* a first week stored with an empty core list although the pool had words,
\* and a second week topped up with the first usable entry of the pool
C25_Witness ==
    /\ pc = "done"
    /\ pool # <<>>
    /\ 1 \in WeekNums /\ 2 \in WeekNums
    /\ EmptyAfterSplit(1) /\ Week(1).foundation = <<>>
    /\ Week(1).extension # <<>>
    /\ WeekTopups(2) # <<>>
    /\ \A j \in 1..(topups[1].index - 1) : normalize_kw(pool[j]) = <<>>

\* the keywords of the member lessons of stored week w
MemberWords(w) ==
    UNION {SeqSet(LessonOf(lessons, Week(w).member_lessons[k]).keywords)
           : k \in 1..Len(Week(w).member_lessons)}
\* the codes of xs that are lessons without the marker, in the order of xs
RECURSIVE KnownLessons(_)
KnownLessons(xs) ==
    IF xs = <<>> THEN <<>>
    ELSE (IF Head(xs) \in AllCodes \ FeedbackCodes THEN <<Head(xs)>> ELSE <<>>)
         \o KnownLessons(Tail(xs))

\* C26: in explicit mode the week stored under position w has as members the
\* codes of input week w that are lessons without the marker, in the
\* caller's order; its extension words and the core words before the padding
\* are the split of the keywords of these members alone
C26_ExplicitKeepsGrouping ==
    mode = "explicit" =>
        \A w \in WeekNums :
            /\ w \in 1..Len(week_lesson_codes)
            /\ Week(w).member_lessons = KnownLessons(week_lesson_codes[w])
            /\ Week(w).extension =
                  SplitTier(CoreCandidates(w), ExtCandidates(w)).extension
            /\ PaddedFrom(w, SplitTier(CoreCandidates(w), ExtCandidates(w)).foundation)
            /\ SeqSet(Week(w).extension) \subseteq MemberWords(w)

\* two stored weeks: the first lists two lessons against lesson order around
\* an unknown code, the second lists one of them again
C26_Witness ==
    /\ mode = "explicit" /\ pc = "done"
    /\ week_lesson_codes = <<<<CodeX12, CodeUnknown, CodeX11>>, <<CodeX11>>>>
    /\ WeekNums = {1, 2}
    /\ Week(1).member_lessons = <<CodeX12, CodeX11>>
    /\ Week(2).member_lessons = <<CodeX11>>
    /\ CoreCandidates(1) # CoreCandidates(2)

\* the place of code lc in the sorted list
Place(lc) == CHOOSE k \in 1..Len(result) : result[k] = lc
PlaceIn(lc) == CHOOSE k \in 1..Len(argument) : argument[k] = lc
\* p is the beginning of s
IsPrefix(p, s) == Len(p) <= Len(s) /\ SubSeq(s, 1, Len(p)) = p

PinOkByRightSubmitOnly ==
    /\ (~pin_ok /\ pin_ok') => (screen' = "rerun" /\ pin_input = REQUIRED_PIN
                                 /\ pin_input' = pin_input)
    /\ screen' = "pin_error" => (~pin_ok' /\ pin_input # REQUIRED_PIN)
    /\ pin_ok => pin_ok'

C29_TiersDisjoint ==
    \A w \in WeekNums : NormSet(Week(w).foundation) \cap NormSet(Week(w).extension) = {}

\* C30: every core word of a stored week is, character for character, a
\* keyword of a member lesson or a pool entry; every extension word is a
\* keyword of a member lesson; the extension list is the split of the member
\* keywords whatever the pool holds, and every top-up taken from the pool
\* sits in the core list
C30_WordProvenance ==
    \A w \in WeekNums :
        /\ SeqSet(Week(w).foundation) \subseteq MemberWords(w) \cup SeqSet(pool)
        /\ SeqSet(Week(w).extension) \subseteq MemberWords(w)
        /\ Week(w).extension = SplitTier(CoreCandidates(w), ExtCandidates(w)).extension
        /\ SeqSet(WeekTopups(w)) \subseteq SeqSet(Week(w).foundation) \cap SeqSet(pool)

\* a returned week with extension words, a core keyword that is not in
\* normalized form, and a top-up that is not in normalized form either
C30_Witness ==
    /\ pc = "done"
    /\ \E w \in WeekNums :
          /\ Week(w).extension # <<>>
          /\ \E k \in 1..Len(Week(w).foundation) :
                /\ Week(w).foundation[k] \in MemberWords(w)
                /\ normalize_kw(Week(w).foundation[k]) # Week(w).foundation[k]
          /\ \E t \in SeqSet(WeekTopups(w)) :
                /\ normalize_kw(t) # t
                /\ t \notin MemberWords(w)
                /\ t \notin SeqSet(Week(w).extension)

====
